---- MODULE Spec2Model ----
(***************************************************************************)
(* A model of the site's own code: the Gatsby build hooks (gatsby-node),   *)
(* the application shell (app.js: registry, AppInner, Header, NavLink,     *)
(* renderRoutes, Outlet) and the examples layout (DocsPage).               *)
(*                                                                         *)
(* Strings the code inspects (paths, patterns, route names) are sequences  *)
(* of one-character strings, so that matching, splitting and replacing are *)
(* computed the way the code computes them.                                *)
(***************************************************************************)
EXTENDS Integers, Sequences, FiniteSets, TLC

VARIABLES
    calls,      \* build: one record per hook invocation, in order
    redirects,  \* build: Gatsby's store of redirects
    pages,      \* build: Gatsby's store of pages
    fileText,   \* build: the text of the files on disk
    contextFiles,        \* app: r.keys(), the files require.context matched
    routeComponentsMap,  \* app: the registry importAll fills at module load
    routes,              \* app: router.routes, the route tree of the router
    pathname,            \* app: location.pathname
    theme,               \* app: the theme of the theme context
    activePage,          \* app: router.activePage
    isShowingMobileNav,  \* app: the Header's useState
    memoizedOutlet,      \* app: the module-level cache of the route tree
    view,                \* app: what the last render returned
    lastEvent,           \* app: the handler that ran last
    navProps,            \* NavLink on its own: the props it is rendered with
    navLink,             \* NavLink on its own: the link it rendered
    mdxNodes,            \* examples layout: data.allMdx.nodes
    docsPage,            \* examples layout: what DocsPage last computed
    server,              \* data.test.js: the `server` of the test file
    test,                \* data.test.js: where Jest is in the run of the tests
    dataResult,          \* data.test.js: how the last call of Data settled
    fetched,             \* data.test.js: what became of the last other request
    db,                  \* belongsTo: the authors and blog posts of the db
    blogPost,            \* belongsTo: the blogPost instance in memory
    found                \* belongsTo: what the last operation on it showed

buildVars == <<calls, redirects, pages, fileText>>

appVars == <<contextFiles, routeComponentsMap, routes, pathname, theme, activePage,
             isShowingMobileNav, memoizedOutlet, view, lastEvent>>

navVars == <<navProps, navLink>>

tocVars == <<mdxNodes, docsPage>>

serverVars == <<server, test, dataResult, fetched>>

ormVars == <<db, blogPost, found>>

mirageVars == <<serverVars, ormVars>>

vars == <<buildVars, appVars, navVars, tocVars, mirageVars>>

(***************************************************************************)
(* Bounds                                                                  *)
(***************************************************************************)
MaxCalls == 2   \* hook invocations in one build
MaxDocs == 2    \* records in the documentation generator's output
MaxNodes == 2   \* MDX nodes the static query returns

(***************************************************************************)
(* Strings                                                                 *)
(***************************************************************************)
Contains(s, sub) ==
    \E i \in 0..(Len(s) - Len(sub)) : SubSeq(s, i + 1, i + Len(sub)) = sub

S_snippets == <<"s","n","i","p","p","e","t","s">>
S_docs == <<"/","d","o","c","s">>
S_intro == <<"/","d","o","c","s","/","g","e","t","t","i","n","g","-",
             "s","t","a","r","t","e","d","/","i","n","t","r","o","d","u",
             "c","t","i","o","n">>
S_root == <<"/">>
S_catchAll == <<"/","*">>


S_apiTo == <<"/","a","p","i","/","c","l","a","s","s","e","s","/","a","s",
    "s","o","c","i","a","t","i","o","n">>

S_examplesTo == <<"/","e","x","a","m","p","l","e","s","/","r","e","a","c",
    "t","/","s","i","m","p","l","e","-","e","x","a","m","p","l","e">>

S_docsAll == <<"/","d","o","c","s","/","*">>

S_apiAll == <<"/","a","p","i","/","*">>

S_examplesAll == <<"/","e","x","a","m","p","l","e","s","/","*">>

S_github == <<"h","t","t","p","s",":","/","/","g","i","t","h","u","b",".",
    "c","o","m","/","m","i","r","a","g","e","j","s","/","s","e","r","v",
    "e","r">>

S_http == <<"h","t","t","p">>

S_examplesSlash == <<"/","e","x","a","m","p","l","e","s","/">>

S_md == <<".","m","d">>

SeqsUpTo(S, n) == UNION { [1..k -> S] : k \in 0..n }

Max(a, b) == IF a >= b THEN a ELSE b

(***************************************************************************)
(* Path matching of the router library (segmentize, isSplat, pick), used   *)
(* by Gatsby for a page's matchPath and by <Match path=...> in NavLink.    *)
(***************************************************************************)
RECURSIVE StripLeading(_)
StripLeading(s) ==
    IF Len(s) > 0 /\ s[1] = "/" THEN StripLeading(Tail(s)) ELSE s

RECURSIVE StripTrailing(_)
StripTrailing(s) ==
    IF Len(s) > 0 /\ s[Len(s)] = "/"
    THEN StripTrailing(SubSeq(s, 1, Len(s) - 1))
    ELSE s

\* s.split("/"): "" gives [""], "a//b" gives ["a", "", "b"]
RECURSIVE Split(_)
Split(s) ==
    IF \E i \in 1..Len(s) : s[i] = "/"
    THEN LET i == CHOOSE k \in 1..Len(s) :
                      s[k] = "/" /\ \A j \in 1..(k - 1) : s[j] # "/"
         IN  <<SubSeq(s, 1, i - 1)>> \o Split(SubSeq(s, i + 1, Len(s)))
    ELSE <<s>>

segmentize(uri) == Split(StripTrailing(StripLeading(uri)))

isSplat(segment) == Len(segment) > 0 /\ segment[1] = "*"

isParam(segment) == Len(segment) > 1 /\ segment[1] = ":"

RECURSIVE pickFrom(_, _, _)
pickFrom(routeSegments, uriSegments, index) ==
    IF index > Max(Len(routeSegments), Len(uriSegments)) THEN TRUE
    ELSE IF index <= Len(routeSegments) /\ isSplat(routeSegments[index]) THEN TRUE
    ELSE IF index > Len(uriSegments) THEN FALSE
    ELSE IF index <= Len(routeSegments) /\ isParam(routeSegments[index])
            /\ uriSegments[1] # <<>>
         THEN pickFrom(routeSegments, uriSegments, index + 1)
    ELSE IF index > Len(routeSegments) \/ routeSegments[index] # uriSegments[index]
         THEN FALSE
    ELSE pickFrom(routeSegments, uriSegments, index + 1)

\* match(path, uri) of the router library: does the pattern match the pathname?
Match(path, uri) == pickFrom(segmentize(path), segmentize(uri), 1)

(***************************************************************************)
(* app.js: registry, AppInner, Header, links, renderRoutes, Outlet         *)
(***************************************************************************)
Themes == {"light", "dark"}

themeClasses ==
    [light |-> [active |-> "text-gray-900",
                inactive |-> "text-gray-600 hover:text-gray-900"],
     dark |-> [active |-> "text-gray-100",
               inactive |-> "text-gray-500 hover:text-gray-100"]]

\* key.lastIndexOf("."), counted from 0; -1 when there is none
lastIndexOfDot(key) ==
    IF \E i \in 1..Len(key) : key[i] = "."
    THEN (CHOOSE i \in 1..Len(key) :
              key[i] = "." /\ \A j \in (i + 1)..Len(key) : key[j] # ".") - 1
    ELSE -1

\* key.substr(0, key.lastIndexOf(".")) || key
keyWithoutExtension(key) ==
    LET n == lastIndexOfDot(key)
        sub == IF n <= 0 THEN <<>> ELSE SubSeq(key, 1, n)
    IN  IF sub = <<>> THEN key ELSE sub

\* Files of the routes directory that export no default
NoDefaultFiles == { <<".","/","e","/","x",".","j","s">> }

\* r(key): the module require.context gives for a file
requireModule(key) ==
    IF key \in NoDefaultFiles
    THEN [file |-> key]
    ELSE [file |-> key, default |-> [kind |-> "module", file |-> key]]

\* importAll: a later key of the same name without extension overwrites
RECURSIVE importAllFrom(_, _)
importAllFrom(map, keys) ==
    IF keys = <<>> THEN map
    ELSE importAllFrom((keyWithoutExtension(Head(keys)) :> requireModule(Head(keys))) @@ map,
                       Tail(keys))

importAll(keys) == importAllFrom(<<>>, keys)

\* What require.context("./", true, /\.(js|jsx|mdx|tx|tsx)$/) can list
ContextKeys ==
    { <<>>,
      << <<".","/","a",".","j","s">>,
         <<".","/","d",".","j","s">>,
         <<".","/","d","/","g","/","i",".","m","d","x">> >>,
      << <<".","/","d",".","j","s">>,
         <<".","/","d",".","m","d","x">>,
         <<".","/","e","/","x",".","j","s">>,
         <<".","/","d","/","g",".","i",".","m","d","x">> >> }

Route(fullName, path, children) ==
    [fullName |-> fullName, path |-> path, routes |-> children]

\* Route trees the router can hold
RouteTrees ==
    { <<>>,
      << Route(<<"d">>, "/docs",
               << Route(<<"d",".","g">>, "getting-started",
                        << Route(<<"d",".","g",".","i">>, "introduction",
                                 <<>>) >>) >>),
         Route(<<"a">>, "/api", <<>>) >>,
      << Route(<<"e">>, "/examples",
               << Route(<<"e",".","x">>, "x", <<>>) >>),
         Route(<<"d">>, "/docs", <<>>) >> }

replaceDotsMutFirstOnly(s) ==
    IF \E i \in 1..Len(s) : s[i] = "."
    THEN LET f == CHOOSE i \in 1..Len(s) :
                      s[i] = "." /\ \A j \in 1..(i - 1) : s[j] # "."
         IN  [i \in 1..Len(s) |-> IF i = f THEN "/" ELSE s[i]]
    ELSE s

\* fullName.replace(/\./g, "/")
replaceDots(s) == [i \in 1..Len(s) |-> IF s[i] = "." THEN "/" ELSE s[i]]

\* props => props.children
EmptyComponent(props) == props.children

renderRoutesMutNoChildren(rs) ==
    [i \in 1..Len(rs) |->
        [component |-> [kind |-> "EmptyComponent"], path |-> rs[i].path,
         key |-> rs[i].fullName, children |-> <<>>]]

RECURSIVE renderRoutes(_)
renderRoutes(rs) ==
    [i \in 1..Len(rs) |->
        LET route == rs[i]
            key == <<".", "/">> \o replaceDots(route.fullName)
            Component ==
                IF key \in DOMAIN routeComponentsMap
                THEN IF "default" \in DOMAIN routeComponentsMap[key]
                     THEN routeComponentsMap[key].default
                     ELSE [kind |-> "undefined"]
                ELSE [kind |-> "EmptyComponent"]
        IN  [component |-> Component, path |-> route.path,
             key |-> route.fullName, children |-> renderRoutes(route.routes)]]

OutletMutFollowsRouter(memo, routerRoutes) ==
    [set |-> TRUE, tree |-> renderRoutes(routerRoutes)]

\* Outlet: the cache as it is after a render of Outlet
Outlet(memo, routerRoutes) ==
    IF ~memo.set
    THEN [set |-> TRUE, tree |-> renderRoutes(routerRoutes)]
    ELSE memo

StartsWith(s, prefix) ==
    Len(s) >= Len(prefix) /\ SubSeq(s, 1, Len(prefix)) = prefix

NavLinkMutIgnoresActiveFor(props, th, loc) ==
    LET state == IF Match(props.to, loc) THEN "active" ELSE "inactive"
    IN  [to |-> props.to,
         className |-> <<"mr-5 lg:mr-7 px-1 font-medium",
                         themeClasses[th][state]>>]

NavLink(props, th, loc) ==
    LET activeFor == IF "activeFor" \in DOMAIN props /\ props.activeFor # <<>>
                     THEN props.activeFor
                     ELSE props.to
        state == IF Match(activeFor, loc) THEN "active" ELSE "inactive"
    IN  [to |-> props.to,
         className |-> <<"mr-5 lg:mr-7 px-1 font-medium",
                         themeClasses[th][state]>>]

mobileLinkClasses ==
    [light |-> [active |-> "text-gray-900",
                inactive |-> "text-gray-600 hover:text-gray-900"],
     dark |-> [active |-> "text-gray-100",
               inactive |-> "text-gray-100 hover:text-gray-100"]]

MobileNavLink(to, th, loc) ==
    IF StartsWith(to, S_http)
    THEN [tag |-> "a", to |-> to,
          className |-> <<"block px-5 py-4", mobileLinkClasses[th]["inactive"]>>]
    ELSE LET state == IF StartsWith(loc, to) THEN "active" ELSE "inactive"
         IN  [tag |-> "Link", to |-> to,
              className |-> <<"block px-5 py-4", mobileLinkClasses[th][state]>>]

MobileNavTargets == <<S_intro, S_apiTo, S_github>>

HeaderMutNavNeedsHeaderNav(showHeaderNav, showing, th, loc) ==
    [mobileNavButton |-> IF showHeaderNav
                         THEN IF showing THEN "Close" ELSE "Menu"
                         ELSE "none",
     desktopNav |-> IF showHeaderNav
                    THEN <<NavLink([to |-> S_intro, activeFor |-> S_docsAll], th, loc),
                           NavLink([to |-> S_apiTo, activeFor |-> S_apiAll], th, loc),
                           NavLink([to |-> S_examplesTo,
                                    activeFor |-> S_examplesAll], th, loc)>>
                    ELSE <<>>,
     mobileNav |-> IF showing /\ showHeaderNav
                   THEN [i \in 1..3 |-> MobileNavLink(MobileNavTargets[i], th, loc)]
                   ELSE <<>>,
     mobileNavShown |-> showing /\ showHeaderNav]

\* What Header renders
Header(showHeaderNav, showing, th, loc) ==
    [mobileNavButton |-> IF showHeaderNav
                         THEN IF showing THEN "Close" ELSE "Menu"
                         ELSE "none",
     desktopNav |-> IF showHeaderNav
                    THEN <<NavLink([to |-> S_intro, activeFor |-> S_docsAll], th, loc),
                           NavLink([to |-> S_apiTo, activeFor |-> S_apiAll], th, loc),
                           NavLink([to |-> S_examplesTo,
                                    activeFor |-> S_examplesAll], th, loc)>>
                    ELSE <<>>,
     mobileNav |-> IF showing
                   THEN [i \in 1..3 |-> MobileNavLink(MobileNavTargets[i], th, loc)]
                   ELSE <<>>,
     mobileNavShown |-> showing]

showHeaderNavOfMutNeedsPage(page) ==
    IF page.present
    THEN IF "showHeaderNav" \in DOMAIN page.meta
         THEN page.meta.showHeaderNav
         ELSE TRUE
    ELSE FALSE

\* AppInner: the header navigation shows unless the active page turns it off
showHeaderNavOf(page) ==
    IF page.present /\ "showHeaderNav" \in DOMAIN page.meta
    THEN page.meta.showHeaderNav
    ELSE TRUE

AppInner(page, showing, th, loc, memo) ==
    [header |-> Header(showHeaderNavOf(page), showing, th, loc),
     outlet |-> memo.tree]

ActivePages ==
    { [present |-> FALSE],
      [present |-> TRUE, meta |-> [title |-> "page"]],
      [present |-> TRUE, meta |-> [showHeaderNav |-> FALSE]],
      [present |-> TRUE, meta |-> [showHeaderNav |-> TRUE]] }

AppPaths ==
    { S_root, S_intro, S_apiTo, S_examplesTo,
      <<"/","d","o","c","s","x">> }

AppIdle ==
    /\ contextFiles = <<>>
    /\ routeComponentsMap = <<>>
    /\ routes = <<>>
    /\ pathname = S_root
    /\ theme = "light"
    /\ activePage = [present |-> FALSE]
    /\ isShowingMobileNav = FALSE
    /\ memoizedOutlet = [set |-> FALSE]
    /\ view = [mounted |-> FALSE]
    /\ lastEvent = "off"

NavIdle ==
    /\ navProps = [to |-> S_root]
    /\ navLink = [to |-> S_root, className |-> <<>>]

TocIdle ==
    /\ mdxNodes = <<>>
    /\ docsPage = [mdxPage |-> 0, threw |-> FALSE, defined |-> FALSE]

ServerIdle ==
    /\ server = [started |-> FALSE, running |-> FALSE, users |-> <<>>,
                 routes |-> <<>>]
    /\ test = [running |-> FALSE, n |-> 0, factoryUsers |-> <<>>, earlier |-> 0]
    /\ dataResult = [call |-> "none"]
    /\ fetched = [made |-> FALSE]

OrmIdle ==
    /\ db = [authors |-> <<>>, blogPosts |-> <<>>]
    /\ blogPost = [id |-> 0, authorId |-> 0]
    /\ found = [op |-> "off"]

MirageIdle == ServerIdle /\ OrmIdle

BuildIdle ==
    /\ calls = <<>>
    /\ redirects = {}
    /\ pages = {}
    /\ fileText = <<>>

\* The module is loaded (importAll has run) and nothing is rendered yet.
AppInit ==
    /\ contextFiles \in ContextKeys
    /\ routeComponentsMap = importAll(contextFiles)
    /\ routes \in RouteTrees
    /\ pathname \in AppPaths
    /\ theme \in Themes
    /\ activePage \in ActivePages
    /\ isShowingMobileNav = FALSE
    /\ memoizedOutlet = [set |-> FALSE]
    /\ view = [mounted |-> FALSE]
    /\ lastEvent = "load"
    /\ BuildIdle
    /\ MirageIdle
    /\ NavIdle
    /\ TocIdle

Mounted == lastEvent # "load"

\* onClick of the mobile nav button: setIsShowingMobileNav(!isShowingMobileNav)
buttonOnClick(showing) == ~showing

logoOnClickMutToggles(showing) == ~showing

\* onClick of the logo link: setIsShowingMobileNav(false)
logoOnClick(showing) == FALSE

\* onClick of a MobileNavLink: setIsShowingMobileNav(false)
mobileNavLinkOnClick(showing) == FALSE

\* A render of AppInner (Header and Outlet) with the state after the step
Rendered ==
    /\ memoizedOutlet' = Outlet(memoizedOutlet, routes')
    /\ view' = AppInner(activePage', isShowingMobileNav', theme', pathname',
                        Outlet(memoizedOutlet, routes'))

\* the first render
Mount ==
    /\ lastEvent = "load"
    /\ lastEvent' = "mount"
    /\ UNCHANGED <<contextFiles, routeComponentsMap, routes, pathname, theme, activePage,
                   isShowingMobileNav>>
    /\ Rendered
    /\ UNCHANGED <<buildVars, navVars, tocVars, mirageVars>>

\* onClick of the mobile nav button, which exists only when it is rendered
ClickMobileNavButton ==
    /\ Mounted
    /\ view.header.mobileNavButton # "none"
    /\ isShowingMobileNav' = buttonOnClick(isShowingMobileNav)
    /\ lastEvent' = "clickMobileNavButton"
    /\ UNCHANGED <<contextFiles, routeComponentsMap, routes, pathname, theme, activePage>>
    /\ Rendered
    /\ UNCHANGED <<buildVars, navVars, tocVars, mirageVars>>

\* onClick of the logo link, which leads to "/"
ClickLogo ==
    /\ Mounted
    /\ isShowingMobileNav' = logoOnClick(isShowingMobileNav)
    /\ pathname' = S_root
    /\ activePage' \in ActivePages
    /\ theme' \in Themes
    /\ lastEvent' = "clickLogo"
    /\ UNCHANGED <<contextFiles, routeComponentsMap, routes>>
    /\ Rendered
    /\ UNCHANGED <<buildVars, navVars, tocVars, mirageVars>>

\* onClick of a link of the mobile navigation; the external link leaves
\* the location as it is
ClickMobileNavLink ==
    /\ Mounted
    /\ view.header.mobileNavShown
    /\ \E i \in 1..Len(view.header.mobileNav) :
          LET link == view.header.mobileNav[i] IN
          IF link.tag = "Link"
          THEN /\ pathname' = link.to
               /\ activePage' \in ActivePages
               /\ theme' \in Themes
          ELSE UNCHANGED <<pathname, activePage, theme>>
    /\ isShowingMobileNav' = mobileNavLinkOnClick(isShowingMobileNav)
    /\ lastEvent' = "clickMobileNavLink"
    /\ UNCHANGED <<contextFiles, routeComponentsMap, routes>>
    /\ Rendered
    /\ UNCHANGED <<buildVars, navVars, tocVars, mirageVars>>

\* a route change that is not made through the header
Navigate ==
    /\ Mounted
    /\ pathname' \in AppPaths
    /\ activePage' \in ActivePages
    /\ theme' \in Themes
    /\ lastEvent' = "navigate"
    /\ UNCHANGED <<contextFiles, routeComponentsMap, routes, isShowingMobileNav>>
    /\ Rendered
    /\ UNCHANGED <<buildVars, navVars, tocVars, mirageVars>>

\* the router reports another route list
RouterUpdate ==
    /\ Mounted
    /\ routes' \in RouteTrees
    /\ routes' # routes
    /\ lastEvent' = "routerUpdate"
    /\ UNCHANGED <<contextFiles, routeComponentsMap, pathname, theme, activePage,
                   isShowingMobileNav>>
    /\ Rendered
    /\ UNCHANGED <<buildVars, navVars, tocVars, mirageVars>>

AppNext ==
    \/ Mount
    \/ ClickMobileNavButton
    \/ ClickLogo
    \/ ClickMobileNavLink
    \/ Navigate
    \/ RouterUpdate

SpecApp == AppInit /\ [][AppNext]_vars

(***************************************************************************)
(* NavLink on its own: rendered with any props at any location and theme   *)
(***************************************************************************)
NavPropsSet ==
    { [to |-> S_intro, activeFor |-> S_docsAll],
      [to |-> S_apiTo, activeFor |-> S_apiAll],
      [to |-> S_examplesTo, activeFor |-> S_examplesAll],
      [to |-> S_apiTo],
      [to |-> S_root],
      [to |-> S_intro, activeFor |-> <<>>] }

NavPaths ==
    AppPaths \cup
    { S_docs, S_docs \o <<"/">>, S_apiTo \o <<"/">>,
      <<"/","a","p","i">>,
      <<"/","e","x","a","m","p","l","e","s","/","r","e","a","c","t">>,
      <<"/","d","o","c","s","/","g","e","t","t","i","n","g","-","s","t","a","r","t","e","d","/","i","n","t","r","o","d","u","c","t","i","o","n","/","x">> }

NavLinkInit ==
    /\ navProps \in NavPropsSet
    /\ pathname \in NavPaths
    /\ theme \in Themes
    /\ navLink = NavLink(navProps, theme, pathname)
    /\ contextFiles = <<>>
    /\ routeComponentsMap = <<>>
    /\ routes = <<>>
    /\ activePage = [present |-> FALSE]
    /\ isShowingMobileNav = FALSE
    /\ memoizedOutlet = [set |-> FALSE]
    /\ view = [mounted |-> FALSE]
    /\ lastEvent = "off"
    /\ BuildIdle
    /\ MirageIdle
    /\ TocIdle

NavFrame ==
    UNCHANGED <<buildVars, tocVars, mirageVars, contextFiles, routeComponentsMap, routes, activePage,
                isShowingMobileNav, memoizedOutlet, view, lastEvent>>

\* the location changes and the link is rendered again
NavLocationChange ==
    /\ pathname' \in NavPaths \ {pathname}
    /\ navLink' = NavLink(navProps, theme, pathname')
    /\ UNCHANGED <<navProps, theme>>
    /\ NavFrame

\* the theme changes and the link is rendered again
NavThemeChange ==
    /\ theme' \in Themes \ {theme}
    /\ navLink' = NavLink(navProps, theme', pathname)
    /\ UNCHANGED <<navProps, pathname>>
    /\ NavFrame

\* the link is rendered with other props
NavPropsChange ==
    /\ navProps' \in NavPropsSet \ {navProps}
    /\ navLink' = NavLink(navProps', theme, pathname)
    /\ UNCHANGED <<theme, pathname>>
    /\ NavFrame

NavLinkNext ==
    \/ NavLocationChange
    \/ NavThemeChange
    \/ NavPropsChange

SpecNavLink == NavLinkInit /\ [][NavLinkNext]_vars

(***************************************************************************)
(* examples.js: DocsPage, the layout of the examples pages                 *)
(***************************************************************************)
At(s, i, sub) ==
    i >= 1 /\ i + Len(sub) - 1 <= Len(s) /\ SubSeq(s, i, i + Len(sub) - 1) = sub

\* fileAbsolutePath.match(/(\/examples\/.+)\.md[x]?/): the leftmost start,
\* and for it the longest ".+" that ".md" follows.  The optional "x" takes
\* no part in the captured group.
examplesMatch(path) ==
    LET ends(i) == { j \in 1..Len(path) :
                       j >= i + Len(S_examplesSlash) + 1 /\ At(path, j, S_md) }
        starts == { i \in 1..Len(path) :
                      At(path, i, S_examplesSlash) /\ ends(i) # {} }
    IN  IF starts = {}
        THEN [matched |-> FALSE]
        ELSE LET i == CHOOSE a \in starts : \A b \in starts : a <= b
                 j == CHOOSE a \in ends(i) : \A b \in ends(i) : a >= b
             IN  [matched |-> TRUE, group1 |-> SubSeq(path, i, j - 1)]

\* new RegExp(`${source}/?`).test(text): the source's "." stands for any
\* character, its other characters for themselves; the search is not
\* anchored, and the closing "/?" also matches the empty string, so it
\* decides nothing.
RegExpTest(source, text) ==
    \E o \in 0..(Len(text) - Len(source)) :
        \A k \in 1..Len(source) : source[k] = "." \/ source[k] = text[o + k]

didMatch(node, loc) ==
    LET match == examplesMatch(node.fileAbsolutePath) IN
    IF match.matched THEN RegExpTest(match.group1, loc) ELSE FALSE

findMutLast(nodes, loc) ==
    IF \E i \in DOMAIN nodes : didMatch(nodes[i], loc)
    THEN CHOOSE i \in DOMAIN nodes :
             /\ didMatch(nodes[i], loc)
             /\ \A j \in DOMAIN nodes : j > i => ~didMatch(nodes[j], loc)
    ELSE 0

\* nodes.find(...): the index of the first node that matches, 0 for none
find(nodes, loc) ==
    IF \E i \in DOMAIN nodes : didMatch(nodes[i], loc)
    THEN CHOOSE i \in DOMAIN nodes :
             /\ didMatch(nodes[i], loc)
             /\ \A j \in 1..(i - 1) : ~didMatch(nodes[j], loc)
    ELSE 0

DocsPageMutNoGuard(nodes, loc) ==
    LET mdxPage == find(nodes, loc) IN
    IF mdxPage = 0
    THEN [mdxPage |-> 0, threw |-> TRUE, defined |-> FALSE]
    ELSE LET toc == nodes[mdxPage].tableOfContents IN
         IF "items" \notin DOMAIN toc \/ toc.items = <<>>
         THEN [mdxPage |-> mdxPage, threw |-> TRUE, defined |-> FALSE]
         ELSE IF "items" \in DOMAIN toc.items[1]
              THEN [mdxPage |-> mdxPage, threw |-> FALSE, defined |-> TRUE,
                    items |-> toc.items[1].items]
              ELSE [mdxPage |-> mdxPage, threw |-> FALSE, defined |-> FALSE]

\* mdxPage && mdxPage.tableOfContents.items[0].items
DocsPage(nodes, loc) ==
    LET mdxPage == find(nodes, loc) IN
    IF mdxPage = 0
    THEN [mdxPage |-> 0, threw |-> FALSE, defined |-> FALSE]
    ELSE LET toc == nodes[mdxPage].tableOfContents IN
         IF "items" \notin DOMAIN toc \/ toc.items = <<>>
         THEN [mdxPage |-> mdxPage, threw |-> TRUE, defined |-> FALSE]
         ELSE IF "items" \in DOMAIN toc.items[1]
              THEN [mdxPage |-> mdxPage, threw |-> FALSE, defined |-> TRUE,
                    items |-> toc.items[1].items]
              ELSE [mdxPage |-> mdxPage, threw |-> FALSE, defined |-> FALSE]

\* tables of contents: of a page without headings, of a page with a title
\* only, of a page with a title and headings under it
TocShapes ==
    { [none |-> TRUE],
      [items |-> <<[title |-> "t"]>>],
      [items |-> <<[title |-> "t", items |-> <<[title |-> "h"]>>]>>] }

MdxPaths ==
    { <<"/","r","/","e","x","a","m","p","l","e","s","/","a","b",".","m","d","x">>,
      <<"/","r","/","e","x","a","m","p","l","e","s","/","a",".","m","d","x">>,
      <<"/","r","/","d","o","c","s","/","a",".","m","d","x">>,
      <<"/","r","/","e","x","a","m","p","l","e","s","/","a",".","b",".","m","d">> }

MdxNodes ==
    { [fileAbsolutePath |-> f, tableOfContents |-> t] :
      f \in MdxPaths, t \in TocShapes }

TocPaths ==
    { <<"/","e","x","a","m","p","l","e","s","/","a","b">>,
      <<"/","e","x","a","m","p","l","e","s","/","a">>,
      <<"/","e","x","a","m","p","l","e","s","/","a","/">>,
      <<"/","e","x","a","m","p","l","e","s","/","a","x","b">>,
      <<"/","d","o","c","s","/","a">>,
      <<"/","x","/","e","x","a","m","p","l","e","s","/","a">>,
      S_root }

TocInit ==
    /\ mdxNodes \in SeqsUpTo(MdxNodes, MaxNodes)
    /\ pathname \in TocPaths
    /\ docsPage = DocsPage(mdxNodes, pathname)
    /\ contextFiles = <<>>
    /\ routeComponentsMap = <<>>
    /\ routes = <<>>
    /\ theme = "light"
    /\ activePage = [present |-> FALSE]
    /\ isShowingMobileNav = FALSE
    /\ memoizedOutlet = [set |-> FALSE]
    /\ view = [mounted |-> FALSE]
    /\ lastEvent = "off"
    /\ BuildIdle
    /\ MirageIdle
    /\ NavIdle

\* the location changes and DocsPage is rendered again
TocLocationChange ==
    /\ pathname' \in TocPaths \ {pathname}
    /\ docsPage' = DocsPage(mdxNodes, pathname')
    /\ UNCHANGED <<mdxNodes, buildVars, navVars, mirageVars, contextFiles, routeComponentsMap, routes,
                   theme, activePage, isShowingMobileNav, memoizedOutlet,
                   view, lastEvent>>

TocNext ==
    \/ TocLocationChange

SpecToc == TocInit /\ [][TocNext]_vars

(***************************************************************************)
(* gatsby-node: the build hooks                                            *)
(***************************************************************************)
\* Nodes the build hands to onCreateNode.  Only File nodes have a path.
FileNode(p) == [type |-> "File", absolutePath |-> p]

BuildNodes ==
    { FileNode(<<"/">> \o S_snippets \o <<"/","a">>),
      FileNode(<<"/","x">> \o S_snippets \o <<"y">>),
      FileNode(<<"/","s","n","i","p","p","e","t","/","a">>),
      FileNode(<<"/","S","n","i","p","p","e","t","s","/","a">>),
      [type |-> "Mdx"],
      [type |-> "Directory", absolutePath |-> <<"/">> \o S_snippets] }

FilePaths == { n.absolutePath : n \in { m \in BuildNodes : m.type = "File" } }

Texts == {"text1", "text2"}

Stages == {"develop", "develop-html", "build-javascript", "build-html"}

\* fs.readFileSync(path, "utf8")
readFileSync(p) == fileText[p]

onCreateNodeMutEveryFile(node) ==
    IF node.type = "File"
    THEN [read |-> <<node.absolutePath>>,
          issued |-> <<[type |-> "createNodeField", node |-> node,
                        name |-> "content",
                        value |-> readFileSync(node.absolutePath)]>>]
    ELSE [read |-> <<>>, issued |-> <<>>]

onCreateNode(node) ==
    IF node.type = "File"
    THEN IF Contains(node.absolutePath, S_snippets)
         THEN [read |-> <<node.absolutePath>>,
               issued |-> <<[type |-> "createNodeField", node |-> node,
                             name |-> "content",
                             value |-> readFileSync(node.absolutePath)]>>]
         ELSE [read |-> <<>>, issued |-> <<>>]
    ELSE [read |-> <<>>, issued |-> <<>>]

NullRule == [test |-> "@miragejs/server", use |-> "loaders.null()"]

onCreateWebpackConfigMutBuildOnly(stage) ==
    IF stage = "build-html"
    THEN <<[type |-> "setWebpackConfig", rules |-> <<NullRule>>]>>
    ELSE <<>>

onCreateWebpackConfig(stage) ==
    IF stage = "build-html" \/ stage = "develop-html"
    THEN <<[type |-> "setWebpackConfig", rules |-> <<NullRule>>]>>
    ELSE <<>>

createPageForAdamMutOwnPath(options) ==
    [type |-> "createPage", path |-> options.path, matchPath |-> options.path,
     component |-> "<cwd>/src/routes/app.js"]

createPageForAdam(options) ==
    [type |-> "createPage", path |-> options.path, matchPath |-> S_catchAll,
     component |-> "<cwd>/src/routes/app.js"]

DocsRedirect ==
    [type |-> "createRedirect", fromPath |-> S_docs, toPath |-> S_intro]


createPagesMutOnlyFirstRun ==
    IF redirects = {}
    THEN <<DocsRedirect, createPageForAdam([path |-> S_root])>>
    ELSE <<createPageForAdam([path |-> S_root])>>

createPagesMutExtraRedirect ==
    <<DocsRedirect,
      [type |-> "createRedirect", fromPath |-> S_root, toPath |-> S_intro],
      createPageForAdam([path |-> S_root])>>

\* the actions one run of createPages issues, in order
createPages ==
    <<DocsRedirect, createPageForAdam([path |-> S_root])>>

\* Records of the documentation generator's index.json
DocRecords ==
    { [docId |-> 1, kind |-> "class", access |-> "public", name |-> "Server"],
      [docId |-> 2, kind |-> "class", access |-> "private", name |-> "Db"],
      [docId |-> 3, kind |-> "function", access |-> "public", name |-> "hasMany"] }

\* What running the generator over the library's source can come to
GenOutcomes ==
    { [kind |-> "generateThrows"], [kind |-> "indexMissing"],
      [kind |-> "jsonInvalid"] }
    \cup { [kind |-> "ok", index |-> s] : s \in SeqsUpTo(DocRecords, MaxDocs) }

generateESDocMutCatches(outcome) ==
    IF outcome.kind = "ok"
    THEN [threw |-> FALSE, result |-> outcome.index]
    ELSE [threw |-> FALSE, result |-> <<>>]

generateESDoc(outcome) ==
    IF outcome.kind = "ok"
    THEN [threw |-> FALSE, result |-> outcome.index]
    ELSE [threw |-> TRUE, error |-> outcome.kind]

createNodeId(s) == <<"nodeId", s>>

JSONstringify(v) == <<"json", v>>

createContentDigest(s) == <<"digest", s>>

\* {...node, ...{id, internal}}: the later spread wins
ESDocData(node) ==
    [id |-> createNodeId(<<"esdoc-", node.docId>>),
     internal |-> [type |-> "ESDoc",
                   contentDigest |-> createContentDigest(JSONstringify(node))]]
    @@ node

IsPublicClass(node) == node.kind = "class" /\ node.access = "public"

sourceNodesMutPublicOnly(outcome) ==
    LET g == generateESDoc(outcome) IN
    IF g.threw
    THEN [threw |-> TRUE, issued |-> <<>>, logged |-> <<>>]
    ELSE LET pub == SelectSeq(g.result, IsPublicClass) IN
         [threw |-> FALSE,
          issued |-> [i \in 1..Len(pub) |->
                         [type |-> "createNode", data |-> ESDocData(pub[i])]],
          logged |-> [i \in 1..Len(pub) |-> pub[i].name]]

sourceNodes(outcome) ==
    LET g == generateESDoc(outcome) IN
    IF g.threw
    THEN [threw |-> TRUE, issued |-> <<>>, logged |-> <<>>]
    ELSE LET pub == SelectSeq(g.result, IsPublicClass) IN
         [threw |-> FALSE,
          issued |-> [i \in 1..Len(g.result) |->
                         [type |-> "createNode", data |-> ESDocData(g.result[i])]],
          logged |-> [i \in 1..Len(pub) |-> pub[i].name]]

(***************************************************************************)
(* Gatsby's store, as far as the hooks' actions reach it                   *)
(***************************************************************************)
IsRedirect(a) == a.type = "createRedirect"

IsPage(a) == a.type = "createPage"

Range(f) == { f[i] : i \in DOMAIN f }

StoreRedirects(old, issued) ==
    old \cup { [fromPath |-> a.fromPath, toPath |-> a.toPath] :
               a \in { b \in Range(issued) : IsRedirect(b) } }

\* a page replaces the page of the same path
StorePages(old, issued) ==
    LET new == { [path |-> a.path, matchPath |-> a.matchPath,
                  component |-> a.component] :
                 a \in { b \in Range(issued) : IsPage(b) } }
    IN  { pg \in old : \A n \in new : n.path # pg.path } \cup new

\* the components a request for a path is rendered through
Serve(p) ==
    LET to == IF \E r \in redirects : r.fromPath = p
              THEN (CHOOSE r \in redirects : r.fromPath = p).toPath
              ELSE p
    IN  { pg.component :
          pg \in { q \in pages : q.path = to \/ Match(q.matchPath, to) } }

Record(hook, arg, read, r) ==
    /\ calls' = Append(calls, [hook |-> hook, arg |-> arg, read |-> read,
                               issued |-> r.issued, logged |-> r.logged,
                               threw |-> r.threw])
    /\ redirects' = StoreRedirects(redirects, r.issued)
    /\ pages' = StorePages(pages, r.issued)
    /\ UNCHANGED <<fileText, appVars, navVars, tocVars, mirageVars>>

\* an error that leaves a hook is not caught and ends the build
BuildEnded == \E i \in DOMAIN calls : calls[i].threw

RunOnCreateNode ==
    /\ Len(calls) < MaxCalls
    /\ ~BuildEnded
    /\ \E node \in BuildNodes :
        LET r == onCreateNode(node) IN
        Record("onCreateNode", node,
               [i \in 1..Len(r.read) |-> <<r.read[i], fileText[r.read[i]]>>],
               [issued |-> r.issued, logged |-> <<>>, threw |-> FALSE])

RunOnCreateWebpackConfig ==
    /\ Len(calls) < MaxCalls
    /\ ~BuildEnded
    /\ \E stage \in Stages :
        Record("onCreateWebpackConfig", stage, <<>>,
               [issued |-> onCreateWebpackConfig(stage), logged |-> <<>>,
                threw |-> FALSE])

RunCreatePages ==
    /\ Len(calls) < MaxCalls
    /\ ~BuildEnded
    /\ Record("createPages", "none", <<>>,
           [issued |-> createPages, logged |-> <<>>, threw |-> FALSE])

RunSourceNodes ==
    /\ Len(calls) < MaxCalls
    /\ ~BuildEnded
    /\ \E outcome \in GenOutcomes :
        Record("sourceNodes", "none", <<outcome>>, sourceNodes(outcome))

BuildInit ==
    /\ calls = <<>>
    /\ redirects = {}
    /\ pages = {}
    /\ \E t \in Texts : fileText = [p \in FilePaths |-> t]
    /\ AppIdle
    /\ MirageIdle
    /\ NavIdle
    /\ TocIdle

BuildNext ==
    \/ RunOnCreateNode
    \/ RunOnCreateWebpackConfig
    \/ RunCreatePages
    \/ RunSourceNodes

SpecBuild == BuildInit /\ [][BuildNext]_vars


(***************************************************************************)
(* Claims about the application shell                                      *)
(***************************************************************************)
RECURSIVE ElementsOf(_)
ElementsOf(tree) ==
    UNION { {tree[i]} \cup ElementsOf(tree[i].children) : i \in DOMAIN tree }

\* k is "./" followed by the name with every dot turned into a slash
IsKeyOf(k, fullName) ==
    /\ Len(k) = Len(fullName) + 2
    /\ k[1] = "." /\ k[2] = "/"
    /\ \A i \in 1..Len(fullName) :
          k[i + 2] = IF fullName[i] = "." THEN "/" ELSE fullName[i]

\* C3: every element of the rendered route tree has the component the
\* registry holds under "./" + fullName with dots as slashes, and the
\* pass-through component, which returns its children, when the registry
\* has no such key; there is no third (error) outcome.
C3_LookupOrPassThrough ==
    Mounted =>
        \A el \in ElementsOf(view.outlet) :
            IF \E k \in DOMAIN routeComponentsMap : IsKeyOf(k, el.key)
            THEN LET k == CHOOSE k \in DOMAIN routeComponentsMap :
                              IsKeyOf(k, el.key)
                     m == routeComponentsMap[k]
                 IN  IF "default" \in DOMAIN m
                     THEN el.component = m.default
                     ELSE el.component = [kind |-> "undefined"]
            ELSE /\ el.component = [kind |-> "EmptyComponent"]
                 /\ EmptyComponent([path |-> el.path, children |-> el.children])
                        = el.children

C3_Witness ==
    /\ Mounted
    /\ \E el \in ElementsOf(view.outlet) :
          /\ el.component.kind = "module"
          /\ Len(el.key) = 5
    /\ \E el \in ElementsOf(view.outlet) :
          el.component.kind = "EmptyComponent" /\ el.children # <<>>

\* C5: the mobile navigation is closed before the first render, every click
\* on the mobile nav button inverts the boolean, and the mobile navigation
\* block is rendered in exactly the states where the boolean is true.
C5_MobileNavToggle ==
    /\ [](lastEvent = "load" => isShowingMobileNav = FALSE)
    /\ [](Mounted =>
            /\ view.header.mobileNavShown <=> isShowingMobileNav
            /\ view.header.mobileNav # <<>> <=> isShowingMobileNav)
    /\ [][lastEvent' = "clickMobileNavButton"
            => isShowingMobileNav' = ~isShowingMobileNav]_vars

C5_Witness ==
    /\ lastEvent = "clickMobileNavButton"
    /\ ~isShowingMobileNav
    /\ ~view.header.mobileNavShown
    /\ view.header.mobileNavButton = "Menu"

\* the elements mirror the routes: as many, in the same order, each with
\* its route's path and fullName, and its children mirroring the child routes
RECURSIVE SameShape(_, _)
SameShape(rs, elements) ==
    /\ Len(elements) = Len(rs)
    /\ \A i \in 1..Len(rs) :
          /\ elements[i].path = rs[i].path
          /\ elements[i].key = rs[i].fullName
          /\ SameShape(rs[i].routes, elements[i].children)

\* C25: on every route tree renderRoutes ends and returns elements of the
\* shape of the tree: one element per route in the order of the list, with
\* the route's path and fullName as path and key, and the rendering of the
\* child routes as children; the first render shows that of router.routes.
C25_RenderRoutesShape ==
    Mounted =>
        /\ \A rs \in RouteTrees :
              /\ SameShape(rs, renderRoutes(rs))
              /\ \A i \in 1..Len(rs) :
                    renderRoutes(rs)[i].children = renderRoutes(rs[i].routes)
        /\ lastEvent = "mount" => SameShape(routes, view.outlet)

C25_Witness ==
    /\ lastEvent = "mount"
    /\ Len(routes) = 2
    /\ Len(view.outlet) = 2
    /\ view.outlet[1].key = routes[1].fullName
    /\ view.outlet[2].path = "/api"
    /\ Len(view.outlet[1].children) = 1
    /\ Len(view.outlet[1].children[1].children) = 1
    /\ view.outlet[1].children[1].children[1].path = "introduction"
    /\ view.outlet[1].children[1].children[1].children = <<>>

\* C21: after a click on the logo link or on a link of the mobile navigation
\* the mobile navigation is closed and not rendered, whether it was open or
\* closed before the click.
C21_LinkClicksCloseNav ==
    lastEvent \in {"clickLogo", "clickMobileNavLink"}
        => /\ ~isShowingMobileNav
           /\ ~view.header.mobileNavShown
           /\ view.header.mobileNav = <<>>
           /\ view.header.mobileNavButton # "Close"

C21_Witness ==
    /\ lastEvent = "clickMobileNavLink"
    /\ pathname = S_apiTo
    /\ ~isShowingMobileNav
    /\ view.header.mobileNav = <<>>
    /\ view.header.mobileNavButton = "Menu"

\* C22: whenever the mobile navigation is rendered, the mobile nav button
\* that closes it is rendered too.
C22_OpenNavHasButton ==
    (Mounted /\ view.header.mobileNavShown)
        => view.header.mobileNavButton = "Close"

\* C14: every file the glob matched is in the registry under its relative
\* path without the final extension, with that file's module, and a rendered
\* route whose "./" + fullName with dots as slashes is that path has that
\* module's default export as its component.
C14_RegistryHoldsEveryFile ==
    lastEvent # "off" =>
        \A i \in DOMAIN contextFiles :
            LET path == keyWithoutExtension(contextFiles[i])
                module == requireModule(contextFiles[i])
            IN  /\ path \in DOMAIN routeComponentsMap
                /\ routeComponentsMap[path] = module
                /\ Mounted =>
                      \A el \in ElementsOf(view.outlet) :
                          (IsKeyOf(path, el.key) /\ "default" \in DOMAIN module)
                              => el.component = module.default

\* C13: the rendered route tree is computed at the first render of Outlet
\* and never again: once the cache is set no step changes it, every render
\* shows the cached tree, and the cached tree is the rendering of the route
\* list of the first render, also after the router reports another list.
C13_MemoizedOutlet ==
    /\ [][memoizedOutlet.set => memoizedOutlet' = memoizedOutlet]_vars
    /\ [](Mounted => memoizedOutlet.set /\ view.outlet = memoizedOutlet.tree)
    /\ [](lastEvent = "mount" => memoizedOutlet.tree = renderRoutes(routes))

C13_Witness ==
    /\ lastEvent = "routerUpdate"
    /\ memoizedOutlet.set
    /\ memoizedOutlet.tree # <<>>
    /\ memoizedOutlet.tree # renderRoutes(routes)
    /\ view.outlet = memoizedOutlet.tree

\* C15: the header navigation (mobile nav button and the three desktop
\* links) is rendered unless there is an active page whose meta defines
\* showHeaderNav as false; with no active page it is rendered.
C15_HeaderNavDefault ==
    Mounted =>
        LET hidden == /\ activePage.present
                      /\ "showHeaderNav" \in DOMAIN activePage.meta
                      /\ activePage.meta.showHeaderNav = FALSE
        IN  IF hidden
            THEN /\ view.header.mobileNavButton = "none"
                 /\ view.header.desktopNav = <<>>
            ELSE /\ view.header.mobileNavButton \in {"Menu", "Close"}
                 /\ Len(view.header.desktopNav) = 3
                 /\ view.header.desktopNav[1].to = S_intro
                 /\ view.header.desktopNav[2].to = S_apiTo
                 /\ view.header.desktopNav[3].to = S_examplesTo

C15_Witness ==
    /\ Mounted
    /\ ~activePage.present
    /\ pathname = S_apiTo
    /\ view.header.mobileNavButton = "Menu"
    /\ Len(view.header.desktopNav) = 3

\* the pattern a NavLink is active for
ActiveForOf(props) ==
    IF "activeFor" \in DOMAIN props /\ props.activeFor # <<>>
    THEN props.activeFor
    ELSE props.to

\* the location is the pattern's path, or lies below it when the pattern
\* ends in "/*"
UnderPattern(pat, loc) ==
    LET bare == StripTrailing(loc) IN
    IF Len(pat) >= 2 /\ SubSeq(pat, Len(pat) - 1, Len(pat)) = <<"/", "*">>
    THEN LET prefix == SubSeq(pat, 1, Len(pat) - 2)
         IN  bare = prefix \/ StartsWith(bare, prefix \o <<"/">>)
    ELSE bare = StripTrailing(pat)

\* C6: a NavLink carries the theme's active classes exactly when the
\* location matches its activeFor pattern (its own "to" when activeFor is
\* not given) and the inactive classes otherwise, whatever was rendered
\* before.
C6_NavLinkActive ==
    navLink.className[2] =
        IF UnderPattern(ActiveForOf(navProps), pathname)
        THEN (IF theme = "light" THEN "text-gray-900" ELSE "text-gray-100")
        ELSE (IF theme = "light"
              THEN "text-gray-600 hover:text-gray-900"
              ELSE "text-gray-500 hover:text-gray-100")

C6_Witness ==
    /\ navProps = [to |-> S_apiTo]
    /\ pathname = S_apiTo \o <<"/">>
    /\ theme = "dark"
    /\ navLink.className[2] = "text-gray-100"

(***************************************************************************)
(* Claims about the examples layout, checked under SpecToc                 *)
(***************************************************************************)
\* C4: the lookup selects the first node, in the order of allMdx.nodes,
\* whose file path yields an /examples/... pattern that matches the
\* pathname; no node after the first match is selected, and none is
\* selected when none matches.
C4_FirstMatch ==
    LET hits == { i \in DOMAIN mdxNodes : didMatch(mdxNodes[i], pathname) } IN
    /\ hits = {} => docsPage.mdxPage = 0
    /\ hits # {} =>
          /\ docsPage.mdxPage \in hits
          /\ \A i \in hits : docsPage.mdxPage <= i

C4_Witness ==
    /\ Len(mdxNodes) = 2
    /\ didMatch(mdxNodes[1], pathname)
    /\ didMatch(mdxNodes[2], pathname)
    /\ mdxNodes[1] # mdxNodes[2]
    /\ docsPage.mdxPage = 1

\* C23: the selected node is one whose /examples/... path, without the
\* extension and with or without a closing slash, is the pathname; a node
\* whose path is only a part of the pathname is never selected.
C23_SelectedNodeIsThePage ==
    docsPage.mdxPage # 0 =>
        LET path == examplesMatch(mdxNodes[docsPage.mdxPage].fileAbsolutePath).group1
        IN  pathname = path \/ pathname = path \o <<"/">>

\* C24: when the selected node's table of contents has no top-level item,
\* the layout does not fail and passes on no items.
C24_NoHeadingsEmptyToc ==
    (/\ docsPage.mdxPage # 0
     /\ LET toc == mdxNodes[docsPage.mdxPage].tableOfContents
        IN  "items" \notin DOMAIN toc \/ toc.items = <<>>)
        => /\ ~docsPage.threw
           /\ ~docsPage.defined

NoNodeMatches == \A i \in DOMAIN mdxNodes : ~didMatch(mdxNodes[i], pathname)

\* C12 as stated: when no MDX node matches the page, the layout fails with
\* an uncaught error.
C12_MissingNodeThrows == NoNodeMatches => docsPage.threw

\* C12, amended: when no MDX node matches the page, the layout raises no
\* error; no node is selected and the table of contents it passes on is
\* undefined.
C12_MissingNodeGuarded ==
    NoNodeMatches =>
        /\ ~docsPage.threw
        /\ docsPage.mdxPage = 0
        /\ ~docsPage.defined

C12_Witness ==
    /\ Len(mdxNodes) = 2
    /\ NoNodeMatches
    /\ \E i \in DOMAIN mdxNodes : examplesMatch(mdxNodes[i].fileAbsolutePath).matched
    /\ ~docsPage.threw

(***************************************************************************)
(* Claims about the build hooks, checked under SpecBuild                   *)
(***************************************************************************)
CallsOf(hook) == { i \in DOMAIN calls : calls[i].hook = hook }

RequestPaths ==
    { S_root, S_docs, S_intro, S_docs \o <<"/">>,
      <<"/","a","p","i","/","c","l","a","s","s","e","s","/","d","b">>,
      <<"/","e","x","a","m","p","l","e","s","/","r","e","a","c","t">>,
      <<"/","n","o","p","e">> }

\* C1: every run of createPages registers the redirect from /docs to
\* /docs/getting-started/introduction and no other redirect.
C1_OneRedirect ==
    /\ \A i \in CallsOf("createPages") :
          SelectSeq(calls[i].issued, IsRedirect) =
              <<[type |-> "createRedirect", fromPath |-> S_docs,
                 toPath |-> S_intro]>>
    /\ CallsOf("createPages") # {} =>
          redirects = {[fromPath |-> S_docs, toPath |-> S_intro]}

C1_Witness ==
    /\ Len(calls) = MaxCalls
    /\ \A i \in DOMAIN calls : calls[i].hook = "createPages"
    /\ redirects # {}

\* C2: every run of createPages creates exactly one page, with path "/" and
\* match pattern "/*", bound to the app component; once it has run, every
\* request path is rendered through that component and no other.
C2_OneCatchAllPage ==
    /\ \A i \in CallsOf("createPages") :
          SelectSeq(calls[i].issued, IsPage) =
              <<[type |-> "createPage", path |-> <<"/">>,
                 matchPath |-> <<"/","*">>,
                 component |-> "<cwd>/src/routes/app.js"]>>
    /\ CallsOf("createPages") # {} =>
          /\ Cardinality(pages) = 1
          /\ \A p \in RequestPaths : Serve(p) = {"<cwd>/src/routes/app.js"}

C2_Witness ==
    /\ CallsOf("createPages") # {}
    /\ Cardinality(pages) = 1
    /\ \A p \in RequestPaths : Serve(p) # {}

C8_NullLoaderStages ==
    \A i \in CallsOf("onCreateWebpackConfig") :
        IF calls[i].arg \in {"build-html", "develop-html"}
        THEN calls[i].issued =
                 <<[type |-> "setWebpackConfig",
                    rules |-> <<[test |-> "@miragejs/server",
                                 use |-> "loaders.null()"]>>]>>
        ELSE calls[i].issued = <<>>

C8_Witness ==
    /\ Len(calls) = 2
    /\ calls[1].hook = "onCreateWebpackConfig" /\ calls[1].arg = "develop-html"
    /\ calls[1].issued # <<>>
    /\ calls[2].hook = "onCreateWebpackConfig" /\ calls[2].arg = "develop"
    /\ calls[2].issued = <<>>

\* C11: when the generator fails (generation throws, index.json is missing
\* or does not parse), sourceNodes does not catch it: the invocation ends in
\* an error, has created no ESDoc node, and no hook runs after it.
C11_GeneratorFailureEndsBuild ==
    \A i \in CallsOf("sourceNodes") :
        calls[i].read[1].kind \in {"generateThrows", "indexMissing", "jsonInvalid"}
        => /\ calls[i].threw
           /\ calls[i].issued = <<>>
           /\ i = Len(calls)

C11_Witness ==
    /\ Len(calls) = 2
    /\ calls[1].hook = "createPages"
    /\ calls[2].hook = "sourceNodes"
    /\ calls[2].read[1].kind = "indexMissing"
    /\ calls[2].threw

HasSnippets(p) ==
    \E i \in 1..Len(p) :
        /\ i + 7 <= Len(p)
        /\ p[i] = "s" /\ p[i + 1] = "n" /\ p[i + 2] = "i" /\ p[i + 3] = "p"
        /\ p[i + 4] = "p" /\ p[i + 5] = "e" /\ p[i + 6] = "t" /\ p[i + 7] = "s"

\* C9: onCreateNode attaches the field "content", holding the file's text,
\* exactly to File nodes whose absolute path contains "snippets"; for every
\* other node it creates no field and reads no file.
C9_SnippetContent ==
    \A i \in CallsOf("onCreateNode") :
        LET node == calls[i].arg IN
        IF node.type = "File" /\ HasSnippets(node.absolutePath)
        THEN /\ calls[i].issued =
                    <<[type |-> "createNodeField", node |-> node,
                       name |-> "content",
                       value |-> fileText[node.absolutePath]]>>
             /\ calls[i].read =
                    <<<<node.absolutePath, fileText[node.absolutePath]>>>>
        ELSE /\ calls[i].issued = <<>>
             /\ calls[i].read = <<>>

C9_Witness ==
    /\ Len(calls) = 2
    /\ calls[1].hook = "onCreateNode" /\ calls[1].arg.type = "File"
    /\ calls[1].issued # <<>>
    /\ calls[2].hook = "onCreateNode" /\ calls[2].arg.type = "Directory"
    /\ calls[2].issued = <<>>

\* C10: sourceNodes emits one ESDoc node per record of the generator's
\* output, in the output's order, each carrying the record's fields, an id
\* derived from the record's doc id and a digest of the record; it creates
\* no page, also when a record is a public class.
C10_OneNodePerRecord ==
    \A i \in CallsOf("sourceNodes") :
        calls[i].read[1].kind = "ok" =>
            LET index == calls[i].read[1].index
                issued == calls[i].issued
            IN  /\ Len(issued) = Len(index)
                /\ \A k \in 1..Len(index) :
                      /\ issued[k].type = "createNode"
                      /\ issued[k].data.internal.type = "ESDoc"
                      /\ issued[k].data.id =
                             <<"nodeId", <<"esdoc-", index[k].docId>>>>
                      /\ issued[k].data.internal.contentDigest =
                             <<"digest", <<"json", index[k]>>>>
                      /\ \A f \in DOMAIN index[k] :
                             issued[k].data[f] = index[k][f]
                /\ (\A j \in DOMAIN calls : calls[j].hook = "sourceNodes")
                      => pages = {}

C10_Witness ==
    \E i \in CallsOf("sourceNodes") :
        /\ calls[i].read[1].kind = "ok"
        /\ Len(calls[i].read[1].index) = 2
        /\ calls[i].read[1].index[2].kind = "class"
        /\ calls[i].read[1].index[2].access = "public"
        /\ calls[i].read[1].index[1].kind = "function"
        /\ Len(calls[i].issued) = 2

(***************************************************************************)
(* The React example: src/mirage.js, src/data.js and src/data.test.js.     *)
(* A URL is its origin and the segments of its path; the mock server is    *)
(* the Server the example constructs, as the guides describe it.           *)
(***************************************************************************)
MaxTests == 2
MaxUsers == 2

Origin == "https://some.example.com"
OtherOrigin == "https://other.example.org"

Url(origin, path) == [origin |-> origin, path |-> path]

\* what Faker gives the factory for an email
Emails == {"a@example.com", "b@example.com"}

Verbs == {"GET", "POST", "PATCH", "DELETE"}

\* baseConfig(): its statements in the order they run
baseConfig ==
    << [op |-> "urlPrefix", value |-> Origin],
       [op |-> "get", path |-> <<"allUsers">>, handler |-> "schema.users.all"],
       [op |-> "namespace", value |-> <<"api", "v1">>],
       [op |-> "resource", name |-> "users"],
       [op |-> "passthrough"] >>

\* a declaration resolves under the urlPrefix and namespace set above it
getFullPath(cfg, path) == Url(cfg.urlPrefix, cfg.namespace \o path)

RouteOf(cfg, verb, path, handler) ==
    [verb |-> verb, url |-> getFullPath(cfg, path), handler |-> handler]

\* this.resource(name): the endpoints of the resource shorthand
resource(cfg, name) ==
    << RouteOf(cfg, "GET", <<name>>, "index"),
       RouteOf(cfg, "GET", <<name, ":id">>, "show"),
       RouteOf(cfg, "POST", <<name>>, "create"),
       RouteOf(cfg, "PATCH", <<name, ":id">>, "update"),
       RouteOf(cfg, "DELETE", <<name, ":id">>, "destroy") >>

SetToSeq(S) ==
    CHOOSE f \in [1..Cardinality(S) -> S] : \A x \in S : \E i \in DOMAIN f : f[i] = x

\* this.passthrough() without arguments: "/**" and "/" for every verb,
\* declared like every other route
passthrough(cfg) ==
    LET vs == SetToSeq(Verbs)
    IN  [i \in 1..Len(vs) |-> RouteOf(cfg, vs[i], <<"**">>, "passthrough")]
        \o [i \in 1..Len(vs) |-> RouteOf(cfg, vs[i], <<>>, "passthrough")]

\* one statement of baseConfig
applyStatement(cfg, st) ==
    IF st.op = "urlPrefix" THEN [cfg EXCEPT !.urlPrefix = st.value]
    ELSE IF st.op = "namespace" THEN [cfg EXCEPT !.namespace = st.value]
    ELSE IF st.op = "get"
         THEN [cfg EXCEPT !.routes = @ \o << RouteOf(cfg, "GET", st.path, st.handler) >>]
    ELSE IF st.op = "resource"
         THEN [cfg EXCEPT !.routes = @ \o resource(cfg, st.name)]
    ELSE [cfg EXCEPT !.routes = @ \o passthrough(cfg)]

RECURSIVE applyConfig(_, _)
applyConfig(cfg, statements) ==
    IF statements = <<>> THEN cfg
    ELSE applyConfig(applyStatement(cfg, Head(statements)), Tail(statements))

\* new Server({..., baseConfig}): an empty database and the declared routes
NewServer(config) ==
    [started |-> TRUE, running |-> TRUE, users |-> <<>>,
     routes |-> applyConfig([urlPrefix |-> "", namespace |-> <<>>, routes |-> <<>>],
                            config).routes]

startMirage == NewServer(baseConfig)

\* server.shutdown()
shutdown(srv) == [srv EXCEPT !.running = FALSE]

beforeEachMutStartsOnce(srv) ==
    IF srv.started THEN [srv EXCEPT !.running = TRUE] ELSE startMirage

\* beforeEach(() => { server = startMirage() })
beforeEach(srv) == startMirage

\* afterEach(() => { server.shutdown() })
afterEach(srv) == shutdown(srv)

First(S) == CHOOSE i \in S : \A j \in S : i <= j

\* a declared path against the path of a request: ":id" is one segment,
\* "**" is the rest of the path, which is not empty
RECURSIVE segMatch(_, _)
segMatch(pattern, path) ==
    IF pattern = <<>> THEN path = <<>>
    ELSE IF Head(pattern) = "**" THEN path # <<>>
    ELSE /\ path # <<>>
         /\ Head(pattern) = ":id" \/ Head(pattern) = Head(path)
         /\ segMatch(Tail(pattern), Tail(path))

\* the route that takes a request: a handler before a passthrough
recognize(declared, verb, url) ==
    LET matching == { i \in DOMAIN declared :
                        /\ declared[i].verb = verb
                        /\ declared[i].url.origin = url.origin
                        /\ segMatch(declared[i].url.path, url.path) }
        handlers == { i \in matching : declared[i].handler # "passthrough" }
    IN  IF handlers # {} THEN declared[First(handlers)]
        ELSE IF matching # {} THEN declared[First(matching)]
        ELSE [handler |-> "none"]

usersFindMutFirstRecord(users, id) ==
    IF users = <<>> THEN <<>> ELSE << users[1] >>

\* schema.users.find(id): the record of that id, if there is one
usersFind(users, id) ==
    IF \E i \in DOMAIN users : users[i].id = id
    THEN << users[CHOOSE i \in DOMAIN users : users[i].id = id] >>
    ELSE <<>>

\* what the server does with a GET request
handle(srv, url) ==
    LET route == recognize(srv.routes, "GET", url)
    IN  IF route.handler = "none" THEN [kind |-> "unhandled"]
        ELSE IF route.handler = "passthrough" THEN [kind |-> "passthrough"]
        ELSE IF route.handler \in {"schema.users.all", "index"}
             THEN [kind |-> "response", status |-> 200,
                   body |-> [users |-> srv.users]]
        ELSE LET user == usersFind(srv.users, url.path[Len(url.path)])
             IN  IF user # <<>>
                 THEN [kind |-> "response", status |-> 200,
                       body |-> [user |-> user[1]]]
                 ELSE [kind |-> "response", status |-> 404, body |-> <<>>]

\* server.create('user'): the factory's attributes under the next id
create(srv, attrs) ==
    LET model == [id |-> ToString(Len(srv.users) + 1), email |-> attrs.email]
    IN  [server |-> [srv EXCEPT !.users = Append(@, model)], model |-> model]

\* server.createList('user', n)
RECURSIVE createList(_, _)
createList(srv, attrsList) ==
    IF attrsList = <<>> THEN [server |-> srv, models |-> <<>>]
    ELSE LET one == create(srv, Head(attrsList))
             rest == createList(one.server, Tail(attrsList))
         IN  [server |-> rest.server, models |-> << one.model >> \o rest.models]

\* response.ok
ok(response) == response.status \in 200..299

\* the rest of a method of Data once fetch has settled
settle(response) ==
    IF response.kind # "response"
    THEN [settled |-> "rejected", value |-> response.kind]
    ELSE IF ~ok(response)
    THEN [settled |-> "rejected",
          value |-> "Response not 2xx.  Status Code " \o ToString(response.status)]
    ELSE [settled |-> "resolved", value |-> response.body]

\* Data.allUsers()
allUsers(srv) ==
    LET response == handle(srv, Url(Origin, <<"allUsers">>))
    IN  [response |-> response] @@ settle(response)

lookupUserMutNoOkTest(srv, userId) ==
    LET response == handle(srv, Url(Origin, <<"api", "v1", "users", userId>>))
    IN  [response |-> response, settled |-> "resolved", value |-> response.body]

\* Data.lookupUser(userId)
lookupUser(srv, userId) ==
    LET response == handle(srv, Url(Origin, <<"api", "v1", "users", userId>>))
    IN  [response |-> response] @@ settle(response)

\* the ids the tests look up: -1 and those a test can have created
LookupIds == {"-1"} \cup { ToString(i) : i \in 1..(MaxUsers + 1) }

\* requests other than those of Data
RequestUrls ==
    { Url(Origin, <<"allUsers">>),
      Url(Origin, <<"api", "v1", "allUsers">>),
      Url(Origin, <<"api", "v1", "users">>),
      Url(Origin, <<"users">>),
      Url(Origin, <<"other">>),
      Url(OtherOrigin, <<"api", "v1", "users">>) }

ServerInit ==
    /\ ServerIdle
    /\ OrmIdle
    /\ AppIdle
    /\ NavIdle
    /\ TocIdle
    /\ BuildIdle

ServerFrame == UNCHANGED <<buildVars, appVars, navVars, tocVars, ormVars>>

BeforeEach ==
    /\ ~test.running /\ test.n < MaxTests
    /\ server' = beforeEach(server)
    /\ test' = [test EXCEPT !.running = TRUE, !.n = @ + 1, !.factoryUsers = <<>>]
    /\ UNCHANGED <<dataResult, fetched>>
    /\ ServerFrame

AfterEach ==
    /\ test.running
    /\ server' = afterEach(server)
    /\ test' = [test EXCEPT !.running = FALSE,
                            !.earlier = @ + Len(test.factoryUsers)]
    /\ UNCHANGED <<dataResult, fetched>>
    /\ ServerFrame

Create ==
    /\ test.running /\ Len(test.factoryUsers) < MaxUsers
    /\ \E email \in Emails :
          LET made == create(server, [email |-> email])
          IN  /\ server' = made.server
              /\ test' = [test EXCEPT !.factoryUsers = Append(@, made.model)]
    /\ UNCHANGED <<dataResult, fetched>>
    /\ ServerFrame

CreateList ==
    /\ test.running /\ Len(test.factoryUsers) < MaxUsers
    /\ \E n \in 1..(MaxUsers - Len(test.factoryUsers)) :
          \E emails \in [1..n -> Emails] :
             LET made == createList(server, [i \in 1..n |-> [email |-> emails[i]]])
             IN  /\ server' = made.server
                 /\ test' = [test EXCEPT !.factoryUsers = @ \o made.models]
    /\ UNCHANGED <<dataResult, fetched>>
    /\ ServerFrame

CallAllUsers ==
    /\ test.running
    /\ dataResult' = [call |-> "allUsers", userId |-> "", test |-> test.n,
                      created |-> test.factoryUsers] @@ allUsers(server)
    /\ UNCHANGED <<server, test, fetched>>
    /\ ServerFrame

CallLookupUser ==
    /\ test.running
    /\ \E userId \in LookupIds :
          dataResult' = [call |-> "lookupUser", userId |-> userId, test |-> test.n,
                         created |-> test.factoryUsers] @@ lookupUser(server, userId)
    /\ UNCHANGED <<server, test, fetched>>
    /\ ServerFrame

Request ==
    /\ test.running
    /\ \E url \in RequestUrls :
          fetched' = [made |-> TRUE, url |-> url,
                      handler |-> recognize(server.routes, "GET", url).handler,
                      kind |-> handle(server, url).kind]
    /\ UNCHANGED <<server, test, dataResult>>
    /\ ServerFrame

ServerNext ==
    \/ BeforeEach
    \/ AfterEach
    \/ Create
    \/ CreateList
    \/ CallAllUsers
    \/ CallLookupUser
    \/ Request

SpecServer == ServerInit /\ [][ServerNext]_vars

\* C16: a request for all users made in a test before that test has created
\* any record resolves with zero users, whatever earlier tests created on
\* the servers that were started for them and shut down after them.
C16_NoLeakAcrossTests ==
    (dataResult.call = "allUsers" /\ dataResult.created = <<>>)
        => /\ dataResult.settled = "resolved"
           /\ dataResult.value.users = <<>>

C16_Witness ==
    /\ test.running
    /\ test.n = 2
    /\ test.earlier > 0
    /\ dataResult.call = "allUsers"
    /\ dataResult.test = test.n
    /\ dataResult.created = <<>>
    /\ dataResult.settled = "resolved"
    /\ dataResult.value.users = <<>>

C18_DataSettles ==
    dataResult.call # "none" =>
        /\ dataResult.response.kind = "response"
        /\ dataResult.response.status \in 200..299
              => /\ dataResult.settled = "resolved"
                 /\ dataResult.value = dataResult.response.body
        /\ dataResult.response.status \notin 200..299
              => /\ dataResult.settled = "rejected"
                 /\ dataResult.value = "Response not 2xx.  Status Code "
                                          \o ToString(dataResult.response.status)
        /\ (/\ dataResult.call = "lookupUser"
            /\ \A i \in DOMAIN dataResult.created :
                  dataResult.created[i].id # dataResult.userId)
              => /\ dataResult.settled = "rejected"
                 /\ dataResult.value = "Response not 2xx.  Status Code 404"

C18_Witness ==
    /\ dataResult.call = "lookupUser"
    /\ dataResult.userId = "-1"
    /\ dataResult.created # <<>>
    /\ dataResult.settled = "rejected"
    /\ dataResult.value = "Response not 2xx.  Status Code 404"

\* C19: the /allUsers route resolves at the prefix without the namespace, the
\* users resource at the prefix plus /api/v1, and every request that no
\* declared route takes is passed through to its destination.
C19_RoutesBoundAtDeclaration ==
    fetched.made =>
        /\ fetched.url = Url(Origin, <<"allUsers">>)
              => fetched.handler = "schema.users.all"
        /\ fetched.url = Url(Origin, <<"api", "v1", "allUsers">>)
              => fetched.handler # "schema.users.all"
        /\ fetched.url = Url(Origin, <<"api", "v1", "users">>)
              => fetched.handler = "index"
        /\ fetched.url = Url(Origin, <<"users">>)
              => fetched.handler # "index"
        /\ fetched.handler \in {"none", "passthrough"}
              => fetched.kind = "passthrough"

(***************************************************************************)
(* The belongsTo relationship of the guide: a blogPost instance in memory, *)
(* the authors and blog posts of the db, and the methods the helper adds.  *)
(***************************************************************************)
MaxAuthors == 3

\* a foreign key that points to no author
NoAuthor == ""

AuthorIds(database) == { database.authors[i].id : i \in DOMAIN database.authors }

\* schema.blogPosts.find(id): the blog post as the db holds it
findBlogPost(database, id) ==
    database.blogPosts[CHOOSE i \in DOMAIN database.blogPosts :
                           database.blogPosts[i].id = id]

\* blogPost.authorId = id
setAuthorId(post, id) == [post EXCEPT !.authorId = id]

createAuthorMutPersistsKey(database, post, attrs) ==
    LET author == [id |-> ToString(Len(database.authors) + 1), name |-> attrs.name]
    IN  [db |-> [authors |-> Append(database.authors, author),
                 blogPosts |-> [i \in DOMAIN database.blogPosts |->
                                   IF database.blogPosts[i].id = post.id
                                   THEN [database.blogPosts[i] EXCEPT !.authorId = author.id]
                                   ELSE database.blogPosts[i]]],
         blogPost |-> [post EXCEPT !.authorId = author.id]]

\* blogPost.createAuthor(attrs): the author is saved, the key is set on the
\* instance only
createAuthor(database, post, attrs) ==
    LET author == [id |-> ToString(Len(database.authors) + 1), name |-> attrs.name]
    IN  [db |-> [database EXCEPT !.authors = Append(@, author)],
         blogPost |-> [post EXCEPT !.authorId = author.id]]

\* blogPost.save(): the instance's attributes go to its record of the db
save(database, post) ==
    [database EXCEPT !.blogPosts =
        [i \in DOMAIN @ |-> IF @[i].id = post.id THEN post ELSE @[i]]]

OrmInit ==
    /\ \E authors \in {<<>>, << [id |-> "1", name |-> "Sam"] >>} :
          \E k1, k2 \in {NoAuthor} \cup { authors[i].id : i \in DOMAIN authors } :
             db = [authors |-> authors,
                   blogPosts |-> << [id |-> "1", authorId |-> k1],
                                    [id |-> "2", authorId |-> k2] >>]
    /\ blogPost \in { db.blogPosts[i] : i \in DOMAIN db.blogPosts }
    /\ found = [op |-> "find", phase |-> "clean", old |-> blogPost.authorId,
                new |-> blogPost.authorId, shown |-> blogPost.authorId]
    /\ ServerIdle
    /\ AppIdle
    /\ NavIdle
    /\ TocIdle
    /\ BuildIdle

OrmFrame == UNCHANGED <<buildVars, appVars, navVars, tocVars, serverVars>>

SetAuthorId ==
    /\ found.op # "off"
    /\ \E id \in {NoAuthor} \cup AuthorIds(db) :
          /\ id # blogPost.authorId
          /\ blogPost' = setAuthorId(blogPost, id)
    /\ found' = [found EXCEPT !.op = "setAuthorId", !.phase = "clean"]
    /\ UNCHANGED db
    /\ OrmFrame

CreateAuthor ==
    /\ found.op # "off" /\ Len(db.authors) < MaxAuthors
    /\ LET made == createAuthor(db, blogPost, [name |-> "Sam"])
       IN  /\ db' = made.db
           /\ blogPost' = made.blogPost
           /\ found' = [found EXCEPT !.op = "createAuthor", !.phase = "created",
                                     !.old = findBlogPost(db, blogPost.id).authorId,
                                     !.new = made.blogPost.authorId]
    /\ OrmFrame

Save ==
    /\ found.op # "off"
    /\ db' = save(db, blogPost)
    /\ found' = [found EXCEPT !.op = "save",
                              !.phase = IF @ = "created" THEN "saved" ELSE @]
    /\ UNCHANGED blogPost
    /\ OrmFrame

Find ==
    /\ found.op # "off"
    /\ found' = [found EXCEPT !.op = "find",
                              !.shown = findBlogPost(db, blogPost.id).authorId]
    /\ UNCHANGED <<db, blogPost>>
    /\ OrmFrame

OrmNext ==
    \/ SetAuthorId
    \/ CreateAuthor
    \/ Save
    \/ Find

SpecOrm == OrmInit /\ [][OrmNext]_vars

\* C20: createAuthor saves the new author to the db at once and sets the
\* foreign key on the instance only: a blog post fetched from the db again
\* before blogPost.save() shows the old key, and after it the new one.
C20_ForeignKeyInMemoryUntilSave ==
    /\ found.op = "createAuthor"
          => /\ found.new \in AuthorIds(db)
             /\ blogPost.authorId = found.new
             /\ findBlogPost(db, blogPost.id).authorId = found.old
    /\ (found.op = "find" /\ found.phase = "created")
          => /\ found.shown = found.old
             /\ found.shown # blogPost.authorId
    /\ (found.op = "find" /\ found.phase = "saved")
          => /\ found.shown = found.new
             /\ found.shown = blogPost.authorId

C20_Witness ==
    /\ found.op = "find"
    /\ found.phase = "saved"
    /\ found.old # NoAuthor
    /\ found.shown = found.new
    /\ found.new # found.old

====
